---- MODULE Spec2Model ----
(***************************************************************************)
(* A model of the Gaffer host integration of ayon-gaffer:                 *)
(*   client/ayon_gaffer/api/pipeline.py   GafferHost, imprint             *)
(*   client/ayon_gaffer/api/lib.py        name, traversal, rewiring       *)
(*   client/ayon_gaffer/plugins/load/load_scene.py   GafferLoadScene      *)
(*                                                                         *)
(* Python strings are sequences of one-character strings (Text), so that  *)
(* str(), replace(), json.dumps/json.loads, regular expressions and       *)
(* rstrip() are computed character by character.  Python values carry a   *)
(* type tag: [t |-> "str" | "int" | "bool" | "float" | "none" | "dict" |  *)
(* "list", v |-> ...]; a float holds its value in halves (v = 3 is 1.5).  *)
(***************************************************************************)
EXTENDS Integers, Sequences, FiniteSets, TLC

VARIABLES
    nodes,          \* every Gaffer node ever made: index = object identity
    scriptUser,     \* script["user"]: its "ayon_context" plug, or NoPlug
    scriptFileName, \* script["fileName"]
    loads,          \* how many times script.load() ran
    variables,      \* script["variables"], as far as _on_scene_new writes it
    childAddedConns,\* connections of connect_render_layer_signals to the
                    \* script's childAddedSignal
    raised,         \* the exception the last call raised, or "none"
    lastOp,         \* the last call and its arguments
    lastCtx,        \* the data last given to update_context_data
    nm,             \* get_next_valid_name: the call being made
    rp,             \* replace_node: the plug graph and the call
    tr,             \* traverse_scene: the scene and the generator
    bx              \* make_scene_load_box: the call and the box it makes

hostVars == <<nodes, scriptUser, scriptFileName, loads, variables,
              childAddedConns, raised, lastOp, lastCtx>>
vars == <<nodes, scriptUser, scriptFileName, loads, variables,
          childAddedConns, raised, lastOp, lastCtx, nm, rp, tr, bx>>

----------------------------------------------------------------------------
(* Bounds of the model *)

MaxNodes == 2
MaxSceneNew == 2

----------------------------------------------------------------------------
(* Text *)

Range(s) == {s[i] : i \in 1..Len(s)}

DigitChars == <<"0", "1", "2", "3", "4", "5", "6", "7", "8", "9">>

IsDigit(c) == c \in Range(DigitChars)

DigitValue(c) == (CHOOSE i \in 1..10 : DigitChars[i] = c) - 1

RECURSIVE Digits(_)
Digits(n) == IF n < 10 THEN <<DigitChars[n + 1]>>
             ELSE Digits(n \div 10) \o <<DigitChars[(n % 10) + 1]>>

RECURSIVE ParseInt(_)
ParseInt(s) == IF s = <<>> THEN 0
               ELSE 10 * ParseInt(SubSeq(s, 1, Len(s) - 1)) + DigitValue(s[Len(s)])

\* str.replace(old, new) for a one-character old and new
RECURSIVE ReplaceChar(_, _, _)
ReplaceChar(s, old, new) ==
    IF s = <<>> THEN <<>>
    ELSE <<IF Head(s) = old THEN new ELSE Head(s)>> \o ReplaceChar(Tail(s), old, new)

StartsWith(s, p) == Len(p) <= Len(s) /\ SubSeq(s, 1, Len(p)) = p

----------------------------------------------------------------------------
(* Python values *)

PyS(s) == [t |-> "str", v |-> s]
PyI(i) == [t |-> "int", v |-> i]
PyB(b) == [t |-> "bool", v |-> b]
PyF(h) == [t |-> "float", v |-> h]
PyNone == [t |-> "none", v |-> 0]
PyDict(d) == [t |-> "dict", v |-> d]
PyList(l) == [t |-> "list", v |-> l]

\* str(x), for the values the loader hands to imprint_container
PyStr(x) ==
    CASE x.t = "str" -> x.v
      [] x.t = "int" -> Digits(x.v)
      [] x.t = "none" -> <<"N", "o", "n", "e">>
      [] x.t = "bool" -> IF x.v THEN <<"T", "r", "u", "e">>
                         ELSE <<"F", "a", "l", "s", "e">>

\* the number a bool, int or float stands for, in halves
Halves(x) ==
    CASE x.t = "bool" -> IF x.v THEN 2 ELSE 0
      [] x.t = "int" -> 2 * x.v
      [] x.t = "float" -> x.v

IsNumber(x) == x.t \in {"bool", "int", "float"}

\* Python's ==
PyEq(x, y) ==
    IF IsNumber(x) /\ IsNumber(y) THEN Halves(x) = Halves(y)
    ELSE x = y

----------------------------------------------------------------------------
(* json.dumps and json.loads, for dicts (sequences of <<key, value>> pairs  *)
(* in insertion order, keys being Text) of ints, strings, bools, None and   *)
(* dicts.                                                                   *)

Quote(s) == <<"\"">> \o s \o <<"\"">>

RECURSIVE JsonDumps(_)
RECURSIVE JsonItems(_)
JsonItems(d) ==
    IF d = <<>> THEN <<>>
    ELSE Quote(d[1][1]) \o <<":", " ">> \o JsonDumps(d[1][2])
         \o (IF Len(d) > 1 THEN <<",", " ">> \o JsonItems(Tail(d)) ELSE <<>>)

JsonDumps(x) ==
    CASE x.t = "int" -> Digits(x.v)
      [] x.t = "str" -> Quote(x.v)
      [] x.t = "none" -> <<"n", "u", "l", "l">>
      [] x.t = "bool" -> IF x.v THEN <<"t", "r", "u", "e">>
                         ELSE <<"f", "a", "l", "s", "e">>
      [] x.t = "dict" -> <<"{">> \o JsonItems(x.v) \o <<"}">>

JsonFail == [ok |-> FALSE, val |-> PyNone, next |-> 0]

At(s, i) == IF i \in 1..Len(s) THEN s[i] ELSE "EOF"

RECURSIVE SkipWs(_, _)
SkipWs(s, i) == IF At(s, i) = " " THEN SkipWs(s, i + 1) ELSE i

\* the index of the first character from i on that satisfies no digit test
RECURSIVE DigitsEnd(_, _)
DigitsEnd(s, i) == IF IsDigit(At(s, i)) THEN DigitsEnd(s, i + 1) ELSE i

\* the index of the first '"' from i on (Len(s) + 1 when there is none)
RECURSIVE QuoteAt(_, _)
QuoteAt(s, i) == IF i > Len(s) \/ s[i] = "\"" THEN i ELSE QuoteAt(s, i + 1)

JsonString(s, i) ==
    LET j == QuoteAt(s, i + 1)
    IN  IF At(s, i) = "\"" /\ j <= Len(s)
        THEN [ok |-> TRUE, val |-> PyS(SubSeq(s, i + 1, j - 1)), next |-> j + 1]
        ELSE JsonFail

JsonWord(s, i, word, val) ==
    IF SubSeq(s, i, i + Len(word) - 1) = word
    THEN [ok |-> TRUE, val |-> val, next |-> i + Len(word)]
    ELSE JsonFail

\* upsert of a key into a dict, as the decoder's dict does for a repeated key
DictSet(d, k, v) ==
    IF \E i \in 1..Len(d) : d[i][1] = k
    THEN [i \in 1..Len(d) |-> IF d[i][1] = k THEN <<k, v>> ELSE d[i]]
    ELSE Append(d, <<k, v>>)

RECURSIVE JsonValue(_, _)
RECURSIVE JsonMembers(_, _, _)
JsonMembers(s, i, acc) ==
    LET k == JsonString(s, i)
        c == SkipWs(s, k.next)
        v == JsonValue(s, SkipWs(s, c + 1))
        e == SkipWs(s, v.next)
    IN  IF ~k.ok \/ At(s, c) # ":" THEN JsonFail
        ELSE IF ~v.ok THEN JsonFail
        ELSE IF At(s, e) = "," THEN
                 JsonMembers(s, SkipWs(s, e + 1), DictSet(acc, k.val.v, v.val))
        ELSE IF At(s, e) = "}" THEN
                 [ok |-> TRUE, val |-> PyDict(DictSet(acc, k.val.v, v.val)),
                  next |-> e + 1]
        ELSE JsonFail

JsonValue(s, i) ==
    LET c == At(s, i)
    IN  CASE c = "{" ->
                 IF At(s, SkipWs(s, i + 1)) = "}"
                 THEN [ok |-> TRUE, val |-> PyDict(<<>>),
                       next |-> SkipWs(s, i + 1) + 1]
                 ELSE JsonMembers(s, SkipWs(s, i + 1), <<>>)
          [] c = "\"" -> JsonString(s, i)
          [] IsDigit(c) ->
                 [ok |-> TRUE,
                  val |-> PyI(ParseInt(SubSeq(s, i, DigitsEnd(s, i) - 1))),
                  next |-> DigitsEnd(s, i)]
          [] c = "n" -> JsonWord(s, i, <<"n", "u", "l", "l">>, PyNone)
          [] c = "t" -> JsonWord(s, i, <<"t", "r", "u", "e">>, PyB(TRUE))
          [] c = "f" -> JsonWord(s, i, <<"f", "a", "l", "s", "e">>, PyB(FALSE))
          [] OTHER -> JsonFail

\* json.loads(s): the value, or JsonFail when s is no JSON document
JsonLoads(s) ==
    LET r == JsonValue(s, SkipWs(s, 1))
    IN  IF r.ok /\ SkipWs(s, r.next) = Len(s) + 1 THEN r ELSE JsonFail

----------------------------------------------------------------------------
(* Constants of the program *)

JSON_PREFIX == <<"J", "S", "O", "N", ":", ":", ":">>

AYON_CONTAINER_ID ==
    <<"a", "y", "o", "n", ".", "l", "o", "a", "d", ".",
      "c", "o", "n", "t", "a", "i", "n", "e", "r">>

AVALON_CONTAINER_ID ==
    <<"p", "y", "b", "l", "i", "s", "h", ".", "a", "v", "a", "l", "o", "n", ".",
      "c", "o", "n", "t", "a", "i", "n", "e", "r">>

CONTAINER_SCHEMA ==
    <<"o", "p", "e", "n", "p", "y", "p", "e", ":",
      "c", "o", "n", "t", "a", "i", "n", "e", "r", "-", "2", ".", "0">>

NONE_TEXT == <<"<", "N", "o", "n", "e", ">">>

LOADER_NAME ==
    <<"G", "a", "f", "f", "e", "r", "L", "o", "a", "d", "S", "c", "e", "n", "e">>

required == <<"schema", "id", "name", "namespace", "representation", "loader">>

_context_plug == "ayon_context"

----------------------------------------------------------------------------
(* Plugs of node["user"].  A plug is [t |-> its type, v |-> its value]:    *)
(* StringPlug "str", BoolPlug "bool", FloatPlug "float", IntPlug "int".    *)

NoPlug == [t |-> "absent", v |-> 0]

\* plug.getValue()
getValue(plug) == [t |-> plug.t, v |-> plug.v]

\* Whether plug.setValue(value) returns (TRUE) or raises (FALSE).  The Python
\* binding converts the argument to the plug's C++ value type: a string plug
\* takes a str only, an int plug an int (a bool is one), a float plug any
\* number, a bool plug an int or None (taken by truth value).
setValueAccepts(plug, value) ==
    CASE plug.t = "str" -> value.t = "str"
      [] plug.t = "int" -> value.t \in {"int", "bool"}
      [] plug.t = "float" -> value.t \in {"float", "int", "bool"}
      [] plug.t = "bool" -> value.t \in {"bool", "int", "none"}
      [] OTHER -> FALSE

\* the plug after a plug.setValue(value) that returned
setValue(plug, value) ==
    CASE plug.t = "str" -> [t |-> "str", v |-> value.v]
      [] plug.t = "int" -> [t |-> "int", v |-> Halves(value) \div 2]
      [] plug.t = "float" -> [t |-> "float", v |-> Halves(value)]
      [] plug.t = "bool" ->
             [t |-> "bool",
              v |-> IF value.t = "none" THEN FALSE
                    ELSE IF value.t = "bool" THEN value.v ELSE value.v # 0]

\* isinstance(value, cls)
isinstance(value, cls) ==
    \/ value.t = cls
    \/ cls = "int" /\ value.t = "bool"

\* the plug imprint makes for a value: the first class of the if/elif chain
\* the value is an instance of, or NoPlug for the TypeError of its else
NewPlug(value) ==
    IF isinstance(value, "str") THEN [t |-> "str", v |-> value.v]
    ELSE IF isinstance(value, "bool") THEN [t |-> "bool", v |-> value.v]
    ELSE IF isinstance(value, "float") THEN [t |-> "float", v |-> value.v]
    ELSE IF isinstance(value, "int") THEN [t |-> "int", v |-> value.v]
    ELSE NoPlug

\* user[key] = plug
SetItem(user, key, plug) ==
    [k \in DOMAIN user \cup {key} |-> IF k = key THEN plug ELSE user[k]]

ImprintKey_KeepsPlug(st, key, value0) ==
    LET value == IF isinstance(value0, "dict")
                 THEN PyS(JSON_PREFIX \o JsonDumps(value0))
                 ELSE value0
        stored == IF value.t = "none" THEN PyS(NONE_TEXT) ELSE value
    IN  IF st.err # "none" THEN st
        ELSE IF key \in DOMAIN st.user THEN
            IF setValueAccepts(st.user[key], value)
            THEN [st EXCEPT !.user = SetItem(st.user, key,
                                             setValue(st.user[key], value))]
            ELSE [st EXCEPT !.warnings = @ + 1]
        ELSE IF NewPlug(stored) = NoPlug THEN [st EXCEPT !.err = "TypeError"]
        ELSE [st EXCEPT !.user = SetItem(st.user, key, NewPlug(stored))]

\* One round of imprint's loop, on the state st = [user, err, warnings] of
\* the loop: a round after the TypeError does not run.
ImprintKey(st, key, value0) ==
    LET value == IF isinstance(value0, "dict")
                 THEN PyS(JSON_PREFIX \o JsonDumps(value0))
                 ELSE value0
        exists == key \in DOMAIN st.user
        set == exists /\ setValueAccepts(st.user[key], value)
        stored == IF value.t = "none" THEN PyS(NONE_TEXT) ELSE value
        plug == NewPlug(stored)
        warned == IF exists /\ ~set THEN st.warnings + 1 ELSE st.warnings
    IN  IF st.err # "none" THEN st
        ELSE IF set THEN
            [st EXCEPT !.user = SetItem(st.user, key, setValue(st.user[key], value))]
        ELSE IF plug = NoPlug THEN
            [st EXCEPT !.err = "TypeError", !.warnings = warned]
        ELSE
            [st EXCEPT !.user = SetItem(st.user, key, plug), !.warnings = warned]

RECURSIVE ImprintLoop(_, _)
ImprintLoop(st, data) ==
    IF data = <<>> THEN st
    ELSE ImprintLoop(ImprintKey(st, data[1][1], data[1][2]), Tail(data))

\* imprint(node, data): data is a dict, a sequence of <<key, value>> pairs in
\* insertion order.  The result is [user, err, warnings]: node["user"]
\* afterwards, the exception raised ("none" when imprint returned) and the
\* number of warnings logged.
imprint(node, data) ==
    IF ~node.hasUser THEN [user |-> node.user, err |-> "KeyError", warnings |-> 0]
    ELSE ImprintLoop([user |-> node.user, err |-> "none", warnings |-> 0], data)

\* the data imprint_container gives to imprint
ContainerData(name, namespace, context, loader) ==
    << <<"schema", PyS(CONTAINER_SCHEMA)>>,
       <<"id", PyS(AYON_CONTAINER_ID)>>,
       <<"name", PyS(PyStr(name))>>,
       <<"namespace", PyS(PyStr(namespace))>>,
       <<"loader", PyS(PyStr(loader))>>,
       <<"representation", PyS(PyStr(context.representation.id))>> >>

imprint_container(node, name, namespace, context, loader) ==
    imprint(node, ContainerData(name, namespace, context, loader))

----------------------------------------------------------------------------
(* Nodes.  nodes[i] is [kind, inScript, name, hasUser, user, fileName,     *)
(* color, connects, fails, logged]: inScript says whether the node is a     *)
(* child of the root script, connects counts the calls of its              *)
(* connect_signals, fails says whether that call raises, logged counts the *)
(* errors logged for it.                                                   *)

ScriptChildren == {i \in 1..Len(nodes) : nodes[i].inScript}

SiblingNames == {nodes[i].name : i \in ScriptChildren}

RECURSIVE StripDigits(_)
StripDigits(s) ==
    IF s # <<>> /\ IsDigit(s[Len(s)]) THEN StripDigits(SubSeq(s, 1, Len(s) - 1))
    ELSE s

\* The name a node gets when it becomes a child: its own, or, when a sibling
\* has it, its stem with the first free number.
UniqueName(name, taken) ==
    IF name \notin taken THEN name
    ELSE LET stem == StripDigits(name)
             n == CHOOSE k \in 1..(Cardinality(taken) + 1) :
                      /\ stem \o Digits(k) \notin taken
                      /\ \A j \in 1..(k - 1) : stem \o Digits(j) \in taken
         IN  stem \o Digits(n)

\* the container get_containers builds for node i
Container(i) ==
    [key \in Range(required) |-> getValue(nodes[i].user[key])] @@
    [objectName |-> nodes[i].name, _node |-> i]

ContainersStep_AnyId(yielded, i) ==
    IF ~nodes[i].hasUser THEN yielded
    ELSE IF \E k \in 1..Len(required) : required[k] \notin DOMAIN nodes[i].user
    THEN yielded
    ELSE Append(yielded, Container(i))

\* One round of the loop of get_containers: the containers yielded so far,
\* with the one of node i when no continue skips it.
ContainersStep(yielded, i) ==
    IF ~nodes[i].hasUser THEN yielded
    ELSE IF \E k \in 1..Len(required) : required[k] \notin DOMAIN nodes[i].user
    THEN yielded
    ELSE IF getValue(nodes[i].user["id"])
               \notin {PyS(AYON_CONTAINER_ID), PyS(AVALON_CONTAINER_ID)}
    THEN yielded
    ELSE Append(yielded, Container(i))

RECURSIVE ContainersFrom(_, _)
ContainersFrom(yielded, i) ==
    IF i > Len(nodes) THEN yielded
    ELSE IF ~nodes[i].inScript THEN ContainersFrom(yielded, i + 1)
    ELSE ContainersFrom(ContainersStep(yielded, i), i + 1)

\* GafferHost.get_containers(): the containers in the order they are yielded
get_containers == ContainersFrom(<<>>, 1)

\* GafferHost.get_context_data()
get_context_data ==
    IF scriptUser # NoPlug THEN JsonLoads(getValue(scriptUser).v).val
    ELSE PyDict(<<>>)

----------------------------------------------------------------------------
(* Inputs of the host's operations *)

NAME_A == <<"A">>
NAME_R == <<"R">>
NAME_W == <<"W">>
NS == <<"n", "s">>
INSTANCE_ID == <<"i", "n", "s", "t">>
FILE_A == <<"a", ".", "g", "f", "r">>
FILE_B == <<"b", ".", "g", "f", "r">>
FILE_MISSING == <<"m", ".", "g", "f", "r">>
PATH_POSIX == <<"/", "p", "/", "a">>
PATH_WINDOWS == <<"C", ":", "\\", "p", "\\", "b">>
WORK_ROOT == <<"/", "w">>
RENDER_SHOT == <<"s", "1">>

Contexts == {[representation |-> [id |-> PyI(7)], path |-> PATH_POSIX]}
Representations == {[_id |-> PyI(12), path |-> PATH_WINDOWS]}

\* the dicts given to imprint on the nodes of the graph: tags that are no
\* container, or only part of one
TagInputs ==
    { << <<"id", PyI(1)>> >>,
      << <<"schema", PyS(CONTAINER_SCHEMA)>>, <<"id", PyS(INSTANCE_ID)>>,
         <<"name", PyS(NAME_W)>>, <<"namespace", PyS(NS)>>,
         <<"loader", PyNone>>, <<"representation", PyI(7)>> >>,
      << <<"id", PyS(AVALON_CONTAINER_ID)>> >> }

\* the dicts given to imprint on one node, key by key
ImprintInputs ==
    { << <<"k", PyI(5)>> >>,
      << <<"k", PyI(0)>> >>,
      << <<"k", PyB(TRUE)>> >>,
      << <<"k", PyB(FALSE)>> >>,
      << <<"k", PyNone>> >>,
      << <<"k", PyF(2)>> >>,
      << <<"k", PyF(3)>> >>,
      << <<"k", PyS(<<"x">>)>> >>,
      << <<"k", PyDict(<< <<<<"a">>, PyI(1)>> >>)>> >>,
      << <<"k", PyList(<<>>)>>, <<"j", PyI(1)>> >>,
      << <<"j", PyI(1)>>, <<"k", PyS(<<"x">>)>> >>,
      << <<"j", PyNone>> >> }

\* the dicts given to update_context_data
ContextInputs ==
    { <<>>,
      << <<<<"a">>, PyI(1)>> >>,
      << <<<<"b">>, PyS(<<"x">>)>>, <<<<"a">>, PyI(10)>> >>,
      << <<<<"c">>, PyDict(<< <<<<"n">>, PyNone>> >>)>>, <<<<"d">>, PyB(TRUE)>> >> }

BlankNode(kind, name, hasUser) ==
    [kind |-> kind, inScript |-> FALSE, name |-> name, hasUser |-> hasUser,
     user |-> [k \in {} |-> NoPlug], fileName |-> <<>>, color |-> "none", connects |-> 0,
     fails |-> FALSE, logged |-> 0]

\* The workfiles on disk: the nodes, the context plug and the variables that
\* script.load() brings in.
DiskFiles ==
    (FILE_A :> [nodes |-> <<[BlankNode("SceneReader", NAME_A, TRUE) EXCEPT
                               !.fileName = PATH_POSIX,
                               !.user = imprint_container(
                                   BlankNode("SceneReader", NAME_A, TRUE),
                                   PyS(NAME_A), PyS(NS),
                                   [representation |-> [id |-> PyI(7)]],
                                   PyS(LOADER_NAME)).user]>>,
                context |-> << <<<<"a">>, PyI(1)>> >>,
                hasContext |-> TRUE,
                renderShot |-> <<RENDER_SHOT>>]) @@
    (FILE_B :> [nodes |-> <<BlankNode("RenderLayerNode", NAME_R, TRUE)>>,
                context |-> <<>>,
                hasContext |-> FALSE,
                renderShot |-> <<>>])


\* os.path.exists(filepath)
exists(filepath) == filepath \in DOMAIN DiskFiles

----------------------------------------------------------------------------
(* Signals *)

\* RenderLayerNode.connect_signals(): the call is counted; it raises when the
\* node is one whose connection fails
connect_signals(node) ==
    [node |-> [node EXCEPT !.connects = @ + 1],
     err |-> IF node.fails THEN "Exception" ELSE "none"]

\* GafferHost.connect_render_layer_signals(script_node, new_node): the node
\* afterwards and the exception that leaves the call
connect_render_layer_signals_NoTry(node) ==
    IF node.kind = "RenderLayerNode" THEN connect_signals(node)
    ELSE [node |-> node, err |-> "none"]

connect_render_layer_signals(node) ==
    IF node.kind = "RenderLayerNode"
    THEN LET r == connect_signals(node)
         IN  IF r.err = "Exception"
             THEN [node |-> [r.node EXCEPT !.logged = @ + 1], err |-> "none"]
             ELSE r
    ELSE [node |-> node, err |-> "none"]

childAddedSignal_Unconnected(node, conns) == node

\* childAddedSignal emitted for a node: each of the conns connections made by
\* _on_scene_new calls connect_render_layer_signals with it; the host reports
\* an exception of a slot and goes on
RECURSIVE childAddedSignal(_, _)
childAddedSignal(node, conns) ==
    IF conns = 0 THEN node
    ELSE childAddedSignal(connect_render_layer_signals(node).node, conns - 1)

\* script.addChild(node): the node as a child of the script, after every
\* connection to childAddedSignal has been called with it
addChild(node, siblings, conns) ==
    childAddedSignal([node EXCEPT !.inScript = TRUE,
                                  !.name = UniqueName(node.name, siblings)],
                     conns)

----------------------------------------------------------------------------
(* The host's operations *)

NoOp == [op |-> "none"]

\* A creator's _create_node, or the user making a node in the graph: a new
\* node becomes a child of the script.
AddNode(node) ==
    /\ Len(nodes) < MaxNodes
    /\ nodes' = Append(nodes, addChild(node, SiblingNames, childAddedConns))
    /\ raised' = "none"
    /\ lastOp' = [op |-> "create", node |-> Len(nodes) + 1]
    /\ UNCHANGED <<scriptUser, scriptFileName, loads, variables,
                   childAddedConns, lastCtx, nm, rp, tr, bx>>

CreateNode(kind, name, hasUser) == AddNode(BlankNode(kind, name, hasUser))

\* imprint(node, data) on a child n of the script
Imprint(n, data) ==
    LET r == imprint(nodes[n], data)
    IN  /\ nodes' = [nodes EXCEPT ![n].user = r.user]
        /\ raised' = r.err
        /\ lastOp' = [op |-> "imprint", node |-> n, data |-> data,
                      warnings |-> r.warnings]
        /\ UNCHANGED <<scriptUser, scriptFileName, loads, variables,
                       childAddedConns, lastCtx, nm, rp, tr, bx>>

\* imprint_container(node, name, namespace, context, loader) on a child n of
\* the script, as a loader does
ImprintContainer(n, name, namespace, context) ==
    LET r == imprint_container(nodes[n], PyS(name), namespace, context,
                               PyS(LOADER_NAME))
    IN  /\ nodes' = [nodes EXCEPT ![n].user = r.user]
        /\ raised' = r.err
        /\ lastOp' = [op |-> "imprint_container", node |-> n, name |-> name,
                      namespace |-> namespace, context |-> context,
                      warnings |-> r.warnings]
        /\ UNCHANGED <<scriptUser, scriptFileName, loads, variables,
                       childAddedConns, lastCtx, nm, rp, tr, bx>>

\* GafferLoadScene.load(context, name, namespace, data)
load(context, name, namespace) ==
    LET made == [BlankNode("SceneReader", name, TRUE) EXCEPT
                     !.fileName = ReplaceChar(context.path, "\\", "/")]
        child == [addChild(made, SiblingNames, childAddedConns) EXCEPT
                     !.color = "family"]
        r == imprint_container(child, PyS(name), namespace, context,
                               PyS(LOADER_NAME))
    IN  /\ Len(nodes) < MaxNodes
        /\ nodes' = Append(nodes, [child EXCEPT !.user = r.user])
        /\ raised' = r.err
        /\ lastOp' = [op |-> "load", node |-> Len(nodes) + 1, name |-> name,
                      namespace |-> namespace, context |-> context]
        /\ UNCHANGED <<scriptUser, scriptFileName, loads, variables,
                       childAddedConns, lastCtx, nm, rp, tr, bx>>

update_KeepsBackslashes(op, container, representation) ==
    LET n == container._node
        value == PyS(PyStr(representation._id))
        plug == nodes[n].user["representation"]
        ok == setValueAccepts(plug, value)
    IN  /\ nodes' = [nodes EXCEPT
                       ![n].fileName = representation.path,
                       ![n].user = IF ok
                                   THEN SetItem(@, "representation",
                                                setValue(plug, value))
                                   ELSE @]
        /\ raised' = IF ok THEN "none" ELSE "Exception"
        /\ lastOp' = [op |-> op, node |-> n, representation |-> representation]
        /\ UNCHANGED <<scriptUser, scriptFileName, loads, variables,
                       childAddedConns, lastCtx, nm, rp, tr, bx>>

\* GafferLoadScene.update(container, representation), as the call op
update(op, container, representation) ==
    LET n == container._node
        path == ReplaceChar(representation.path, "\\", "/")
        value == PyS(PyStr(representation._id))
        plug == nodes[n].user["representation"]
        ok == setValueAccepts(plug, value)
    IN  /\ nodes' = [nodes EXCEPT
                       ![n].fileName = path,
                       ![n].user = IF ok
                                   THEN SetItem(@, "representation",
                                                setValue(plug, value))
                                   ELSE @]
        /\ raised' = IF ok THEN "none" ELSE "Exception"
        /\ lastOp' = [op |-> op, node |-> n, representation |-> representation]
        /\ UNCHANGED <<scriptUser, scriptFileName, loads, variables,
                       childAddedConns, lastCtx, nm, rp, tr, bx>>

\* GafferLoadScene.switch(container, representation)
switch(container, representation) == update("switch", container, representation)

remove_FirstChild(container) ==
    LET n == CHOOSE i \in ScriptChildren : \A j \in ScriptChildren : i <= j
    IN  /\ nodes' = [nodes EXCEPT ![n].inScript = FALSE]
        /\ raised' = "none"
        /\ lastOp' = [op |-> "remove", node |-> container._node]
        /\ UNCHANGED <<scriptUser, scriptFileName, loads, variables,
                       childAddedConns, lastCtx, nm, rp, tr, bx>>

\* GafferLoadScene.remove(container)
remove(container) ==
    LET n == container._node
    IN  /\ nodes' = [nodes EXCEPT ![n].inScript = FALSE]
        /\ raised' = "none"
        /\ lastOp' = [op |-> "remove", node |-> n]
        /\ UNCHANGED <<scriptUser, scriptFileName, loads, variables,
                       childAddedConns, lastCtx, nm, rp, tr, bx>>

update_context_data_KeepsPlug(data) ==
    /\ scriptUser' = IF scriptUser = NoPlug
                     THEN [t |-> "str", v |-> JsonDumps(PyDict(data))]
                     ELSE scriptUser
    /\ lastCtx' = [called |-> TRUE, data |-> PyDict(data)]
    /\ raised' = "none"
    /\ lastOp' = [op |-> "update_context_data", data |-> data,
                  existed |-> scriptUser # NoPlug]
    /\ UNCHANGED <<nodes, scriptFileName, loads, variables, childAddedConns,
                   nm, rp, tr, bx>>

\* GafferHost.update_context_data(data, changes)
update_context_data(data) ==
    /\ scriptUser' = [t |-> "str", v |-> JsonDumps(PyDict(data))]
    /\ lastCtx' = [called |-> TRUE, data |-> PyDict(data)]
    /\ raised' = "none"
    /\ lastOp' = [op |-> "update_context_data", data |-> data,
                  existed |-> scriptUser # NoPlug]
    /\ UNCHANGED <<nodes, scriptFileName, loads, variables, childAddedConns,
                   nm, rp, tr, bx>>

create_multishot_context_vars_Always(renderShot) == Append(renderShot, <<>>)

\* create_multishot_context_vars(script_node): the values of the variables
\* named render:shot afterwards
create_multishot_context_vars(renderShot) ==
    IF renderShot = <<>> THEN Append(renderShot, <<>>) ELSE renderShot

\* GafferHost._on_scene_new(script_container, script_node), on the children
\* and the render:shot variables the script has when it is called
\* the loop over script_node.children(RenderLayerNode), from child i on: it
\* ends at the first call that raises
RECURSIVE OnSceneNewNodes(_, _)
OnSceneNewNodes(children, i) ==
    IF i > Len(children) THEN [nodes |-> children, err |-> "none"]
    ELSE IF children[i].inScript /\ children[i].kind = "RenderLayerNode"
         THEN LET r == connect_render_layer_signals(children[i])
                  done == [children EXCEPT ![i] = r.node]
              IN  IF r.err # "none" THEN [nodes |-> done, err |-> r.err]
                  ELSE OnSceneNewNodes(done, i + 1)
         ELSE OnSceneNewNodes(children, i + 1)

\* the variables it writes; check_boxnode_versions is reached when the loop
\* has not raised
OnSceneNewVariables(renderShot, err) ==
    [projectRootDirectory |-> WORK_ROOT,
     context |-> TRUE,
     renderShot |-> create_multishot_context_vars(renderShot),
     framerate |-> TRUE,
     boxnodeChecks |-> variables.boxnodeChecks + (IF err = "none" THEN 1 ELSE 0)]

\* script.load(): the nodes of the script are deleted and those of the file
\* become its children, one by one
RECURSIVE LoadNodes(_, _)
LoadNodes(all, new) ==
    IF new = <<>> THEN all
    ELSE LoadNodes(
             Append(all,
                    addChild(new[1],
                             {all[i].name : i \in {j \in 1..Len(all) : all[j].inScript}},
                             childAddedConns)),
             Tail(new))

OpenMissing_AfterSetValue(filepath) ==
    /\ scriptFileName' = filepath
    /\ raised' = "RuntimeError"
    /\ lastOp' = [op |-> "open_workfile", filepath |-> filepath]
    /\ UNCHANGED <<nodes, scriptUser, loads, variables, childAddedConns,
                   lastCtx, nm, rp, tr, bx>>

\* open_workfile on a path that does not exist: the RuntimeError
OpenMissing(filepath) ==
    /\ raised' = "RuntimeError"
    /\ lastOp' = [op |-> "open_workfile", filepath |-> filepath]
    /\ UNCHANGED <<nodes, scriptUser, scriptFileName, loads, variables,
                   childAddedConns, lastCtx, nm, rp, tr, bx>>

\* open_workfile on a path that exists: the file name is set, the script is
\* loaded and _on_scene_new runs
OpenExisting(filepath) ==
    LET file == DiskFiles[filepath]
        deleted == [i \in 1..Len(nodes) |-> [nodes[i] EXCEPT !.inScript = FALSE]]
    IN  /\ childAddedConns < MaxSceneNew
        /\ Len(nodes) + Len(file.nodes) <= MaxNodes
        /\ scriptFileName' = filepath
        /\ loads' = loads + 1
        /\ scriptUser' = IF file.hasContext
                         THEN [t |-> "str", v |-> JsonDumps(PyDict(file.context))]
                         ELSE NoPlug
        /\ lastCtx' = [called |-> file.hasContext, data |-> PyDict(file.context)]
        /\ nodes' = OnSceneNewNodes(LoadNodes(deleted, file.nodes), 1).nodes
        /\ variables' = OnSceneNewVariables(
                            file.renderShot,
                            OnSceneNewNodes(LoadNodes(deleted, file.nodes), 1).err)
        /\ childAddedConns' = childAddedConns + 1
        /\ raised' = OnSceneNewNodes(LoadNodes(deleted, file.nodes), 1).err
        /\ lastOp' = [op |-> "open_workfile", filepath |-> filepath]
        /\ UNCHANGED <<nm, rp, tr, bx>>

\* GafferHost.open_workfile(filepath)
open_workfile(filepath) ==
    IF ~exists(filepath) THEN OpenMissing(filepath) ELSE OpenExisting(filepath)

\* A script is added to the application's scripts: the callback that
\* _register_callbacks connected runs _on_scene_new.
ScriptAdded ==
    /\ childAddedConns < MaxSceneNew
    /\ nodes' = OnSceneNewNodes(nodes, 1).nodes
    /\ variables' = OnSceneNewVariables(variables.renderShot,
                                        OnSceneNewNodes(nodes, 1).err)
    /\ childAddedConns' = childAddedConns + 1
    /\ raised' = OnSceneNewNodes(nodes, 1).err
    /\ lastOp' = [op |-> "script_added"]
    /\ UNCHANGED <<scriptUser, scriptFileName, loads, lastCtx, nm, rp, tr, bx>>

----------------------------------------------------------------------------
(* The host: Init is the application with an empty, unsaved script *)

HostInit ==
    /\ nodes = <<>>
    /\ scriptUser = NoPlug
    /\ scriptFileName = <<>>
    /\ loads = 0
    /\ variables = [projectRootDirectory |-> <<>>, context |-> FALSE,
                    renderShot |-> <<>>, framerate |-> FALSE,
                    boxnodeChecks |-> 0]
    /\ childAddedConns = 0
    /\ raised = "none"
    /\ lastOp = NoOp
    /\ lastCtx = [called |-> FALSE, data |-> PyDict(<<>>)]

Idle == /\ nm = [pc |-> "idle"]
        /\ rp = [pc |-> "idle"]
        /\ tr = [pc |-> "idle"]
        /\ bx = [pc |-> "idle"]

Init == HostInit /\ Idle

DoCreateNode ==
    \E hasUser \in BOOLEAN : CreateNode("SceneWriter", NAME_W, hasUser)

DoTag ==
    \E n \in ScriptChildren, data \in TagInputs :
        nodes[n].kind = "SceneWriter" /\ Imprint(n, data)

DoImprintContainer ==
    \E n \in ScriptChildren, c \in Contexts, name \in {NAME_A}, ns \in {PyNone} :
        ImprintContainer(n, name, ns, c)

DoLoad == \E c \in Contexts, name \in {NAME_A}, ns \in {PyNone} : load(c, name, ns)

DoUpdate ==
    \E k \in 1..Len(get_containers), r \in Representations :
        update("update", get_containers[k], r)

DoSwitch ==
    \E k \in 1..Len(get_containers), r \in Representations :
        switch(get_containers[k], r)

DoRemove == \E k \in 1..Len(get_containers) : remove(get_containers[k])

\* The loader and the containers of the graph
Next ==
    \/ DoCreateNode
    \/ DoTag
    \/ DoImprintContainer
    \/ DoLoad
    \/ DoUpdate
    \/ DoSwitch
    \/ DoRemove

Spec == Init /\ [][Next]_vars

DoCreateChild ==
    \/ CreateNode("SceneWriter", NAME_W, TRUE)
    \/ \E fails \in BOOLEAN :
          AddNode([BlankNode("RenderLayerNode", NAME_R, TRUE) EXCEPT !.fails = fails])

DoUpdateContextData == \E data \in ContextInputs : update_context_data(data)

DoOpenWorkfile == \E f \in {FILE_A, FILE_B, FILE_MISSING} : open_workfile(f)

\* The workfile: its context data, opening files and new scenes
NextWorkfile ==
    \/ DoCreateChild
    \/ DoUpdateContextData
    \/ DoOpenWorkfile
    \/ ScriptAdded

SpecWorkfile == Init /\ [][NextWorkfile]_vars

\* A script with the one node a creator made, and what imprint makes of the
\* node's user plugs
ImprintInit ==
    /\ nodes = <<[BlankNode("SceneWriter", NAME_W, TRUE) EXCEPT !.inScript = TRUE]>>
    /\ scriptUser = NoPlug
    /\ scriptFileName = <<>>
    /\ loads = 0
    /\ variables = [projectRootDirectory |-> <<>>, context |-> FALSE,
                    renderShot |-> <<>>, framerate |-> FALSE,
                    boxnodeChecks |-> 0]
    /\ childAddedConns = 0
    /\ raised = "none"
    /\ lastOp = [op |-> "create", node |-> 1]
    /\ lastCtx = [called |-> FALSE, data |-> PyDict(<<>>)]
    /\ Idle

DoImprint == \E n \in ScriptChildren, data \in ImprintInputs : Imprint(n, data)


SpecImprint == ImprintInit /\ [][DoImprint]_vars

----------------------------------------------------------------------------
(* get_next_valid_name(template, script_node)                               *)

\* the characters of the names, in the order of their code points; each is
\* one of [a-zA-Z0-9_]
CodeOrder ==
    <<"0", "1", "2", "3", "4", "5", "6", "7", "8", "9",
      "A", "R", "W", "_", "a", "b", "m", "n", "t">>

Ord(c) == CHOOSE i \in 1..Len(CodeOrder) : CodeOrder[i] = c

IsWord(c) == c \in Range(CodeOrder)

\* the length of the longest run of characters of class In from s[i] on
RECURSIVE Run(_, _, _)
Run(In(_), s, i) ==
    IF i <= Len(s) /\ In(s[i]) THEN 1 + Run(In, s, i + 1) ELSE 0

IsHash(c) == c = "#"

\* re.search(r'([a-zA-Z0-9_]*)(#+)([a-zA-Z0-9_]*)', template): the leftmost
\* match, each group as long as it can be
TemplateSearch(template) ==
    LET starts == {i \in 1..Len(template) :
                      At(template, i + Run(IsWord, template, i)) = "#"}
    IN  IF starts = {} THEN [found |-> FALSE]
        ELSE LET i == CHOOSE x \in starts : \A y \in starts : x <= y
                 h == Run(IsWord, template, i)
                 p == Run(IsHash, template, i + h)
                 t == Run(IsWord, template, i + h + p)
             IN  [found |-> TRUE,
                  head |-> SubSeq(template, i, i + h - 1),
                  padding |-> SubSeq(template, i + h, i + h + p - 1),
                  tail |-> SubSeq(template, i + h + p, i + h + p + t - 1)]

\* re.match(f"{head}.*{tail}", name), head and tail being word characters
NameMatches(head, tail, name) ==
    /\ StartsWith(name, head)
    /\ \E j \in Len(head)..(Len(name) - Len(tail)) :
           SubSeq(name, j + 1, j + Len(tail)) = tail

\* a < b for str
RECURSIVE StrLess(_, _)
StrLess(a, b) ==
    IF b = <<>> THEN FALSE
    ELSE IF a = <<>> THEN TRUE
    ELSE IF a[1] = b[1] THEN StrLess(Tail(a), Tail(b))
    ELSE Ord(a[1]) < Ord(b[1])

\* ex_names.sort(reverse=True); ex_names[0]
LastName(ex_names) ==
    CHOOSE m \in ex_names : \A o \in ex_names : o = m \/ StrLess(o, m)

\* re.search(r'(.*)_*(\d+)(.*)', name).group(2): the first group takes all it
\* can, which leaves the last digit of the name to the second; <<>> stands
\* for no match
LastNumber(name) ==
    LET at == {i \in 1..Len(name) : IsDigit(name[i])}
    IN  IF at = {} THEN <<>>
        ELSE <<name[CHOOSE i \in at : \A j \in at : j <= i]>>

zfill_None(s, width) == s

\* str.zfill(width)
RECURSIVE zfill(_, _)
zfill(s, width) == IF Len(s) >= width THEN s ELSE zfill(<<"0">> \o s, width)

\* get_next_valid_name(template, script_node), children being the names of
\* script_node.children(): [result, err]
get_next_valid_name(template, children) ==
    LET res == TemplateSearch(template)
        head == IF res.found THEN res.head ELSE template
        padding == IF res.found THEN res.padding ELSE <<>>
        tail == IF res.found THEN res.tail ELSE <<>>
        ex_names == {c \in children : NameMatches(head, tail, c)}
        last == LastNumber(LastName(ex_names))
    IN  IF padding = <<>> THEN [result |-> head \o tail, err |-> "none"]
        ELSE IF ex_names = {} THEN
            [result |-> head \o zfill(Digits(1), Len(padding)) \o tail,
             err |-> "none"]
        ELSE IF last = <<>> THEN
            [result |-> <<>>, err |-> "UnboundLocalError"]
        ELSE
            [result |-> head \o zfill(Digits(ParseInt(last) + 1), Len(padding))
                        \o tail,
             err |-> "none"]

Templates == {<<"n", "#", "#">>, <<"n", "#", "t">>, <<"n", "n">>}

ChildNames ==
    {<<"n", "0", "1">>, <<"n", "0", "2">>, <<"n", "0", "9">>, <<"n", "1", "0">>,
     <<"n", "a", "b">>, <<"m", "0", "1">>, <<"n", "1", "t">>, <<"n", "2", "t">>}

NameInit ==
    /\ HostInit
    /\ bx = [pc |-> "idle"]
    /\ rp = [pc |-> "idle"]
    /\ tr = [pc |-> "idle"]
    /\ \E t \in Templates, c \in SUBSET ChildNames :
           nm = [pc |-> "call", template |-> t, children |-> c]

NameCall ==
    /\ nm.pc = "call"
    /\ LET r == get_next_valid_name(nm.template, nm.children)
       IN  nm' = [pc |-> "done", template |-> nm.template,
                  children |-> nm.children, result |-> r.result, err |-> r.err]
    /\ UNCHANGED <<hostVars, rp, tr, bx>>


SpecName == NameInit /\ [][NameCall]_vars

----------------------------------------------------------------------------
(* replace_node(old_node, new_node) and get_node_connections(node)          *)
(*                                                                          *)
(* A plug is [node, path]: path is the sequence of names from its node.    *)
(* rp.input[p] is the input of plug p (NoInput for none).                   *)

NoInput == [node |-> "none", path |-> <<>>]

\* the plugs of the node to replace, as node.children(Gaffer.Plug) and
\* plug.children(Gaffer.Plug) give them
PlugChildren(path) ==
    CASE path = <<>> -> <<"in", "out">>
      [] path = <<"out">> -> <<"a">>
      [] OTHER -> <<>>

\* whether plug.getValue() returns: "out" is a compound plug
HasValue(path) == path # <<"out">>

OldPlug(path) == [node |-> "old", path |-> path]
NewPlug_(path) == [node |-> "new", path |-> path]
E1 == [node |-> "ext", path |-> <<"e1">>]
E2 == [node |-> "ext", path |-> <<"e2">>]

\* get_all_plugs(in_node, thelist): the plugs below path, depth first
RECURSIVE get_all_plugs(_)
RECURSIVE AllPlugsOf(_, _)
AllPlugsOf(path, names) ==
    IF names = <<>> THEN <<>>
    ELSE <<Append(path, names[1])>> \o get_all_plugs(Append(path, names[1]))
         \o AllPlugsOf(path, Tail(names))

get_all_plugs(path) == AllPlugsOf(path, PlugChildren(path))

OldPaths == Range(get_all_plugs(<<>>))

\* every path the replacing node can have a plug at
NewPathSets ==
    {ps \in SUBSET OldPaths :
        \A q \in ps : Len(q) > 1 => SubSeq(q, 1, Len(q) - 1) \in ps}

PlugOrder ==
    [i \in 1..Len(get_all_plugs(<<>>)) |-> OldPlug(get_all_plugs(<<>>)[i])]
    \o [i \in 1..Len(get_all_plugs(<<>>)) |-> NewPlug_(get_all_plugs(<<>>)[i])]
    \o <<E1, E2>>

AllPlugs == Range(PlugOrder)

\* plug.outputs(), on the connections input
RECURSIVE OutputsFrom(_, _, _)
OutputsFrom(input, plug, i) ==
    IF i > Len(PlugOrder) THEN <<>>
    ELSE (IF input[PlugOrder[i]] = plug THEN <<PlugOrder[i]>> ELSE <<>>)
         \o OutputsFrom(input, plug, i + 1)

outputs(input, plug) == OutputsFrom(input, plug, 1)

ConnectionsStep_AllOutputs(entries, input, serialisable, path) ==
    LET plug == OldPlug(path)
        the_input == input[plug]
        outs == outputs(input, plug)
        in == IF the_input # NoInput /\ the_input.node # "old"
              THEN <<the_input>> ELSE <<>>
    IN  IF ~serialisable[path] THEN entries
        ELSE IF the_input = NoInput /\ Len(outs) = 0 THEN entries
        ELSE IF Len(in) = 0 /\ Len(outs) = 0 THEN entries
        ELSE Append(entries, [src |-> path, in |-> in, out |-> outs])

\* One round of the loop of get_node_connections(node) for the old node: the
\* entries so far, with the one of the plug at path when it has a connection
\* to a plug outside the node.
ConnectionsStep(entries, input, serialisable, path) ==
    LET plug == OldPlug(path)
        the_input == input[plug]
        outs == outputs(input, plug)
        Outside(o) == o.node # "old"
        in == IF the_input # NoInput /\ the_input.node # "old"
              THEN <<the_input>> ELSE <<>>
        out == SelectSeq(outs, Outside)
    IN  IF ~serialisable[path] THEN entries
        ELSE IF the_input = NoInput /\ Len(outs) = 0 THEN entries
        ELSE IF Len(in) = 0 /\ Len(out) = 0 THEN entries
        ELSE Append(entries, [src |-> path, in |-> in, out |-> out])

RECURSIVE ConnectionsLoop(_, _, _, _)
ConnectionsLoop(entries, input, serialisable, paths) ==
    IF paths = <<>> THEN entries
    ELSE ConnectionsLoop(ConnectionsStep(entries, input, serialisable, paths[1]),
                         input, serialisable, Tail(paths))

\* get_node_connections(old_node): the dict, as its entries in order
get_node_connections(input, serialisable) ==
    ConnectionsLoop(<<>>, input, serialisable, get_all_plugs(<<>>))

\* the walk from new_node down the parts of src with getChild: the plug, or
\* NoInput for None
RECURSIVE GetChildWalk(_, _, _)
GetChildWalk(newPaths, at, parts) ==
    IF parts = <<>> THEN NewPlug_(at)
    ELSE IF Append(at, parts[1]) \in newPaths
         THEN GetChildWalk(newPaths, Append(at, parts[1]), Tail(parts))
         ELSE NoInput

RECURSIVE SetInputs(_, _, _)
SetInputs(input, plugs, source) ==
    IF plugs = <<>> THEN input
    ELSE SetInputs([input EXCEPT ![plugs[1]] = source], Tail(plugs), source)

RewireEntry_InOnly(input, newPaths, entry) ==
    LET source_plug == GetChildWalk(newPaths, <<>>, entry.src)
    IN  IF source_plug # NoInput /\ entry.in # <<>>
        THEN [input EXCEPT ![source_plug] = entry.in[Len(entry.in)]]
        ELSE input

\* the connections after one round of the loop of replace_node over the
\* entries of get_node_connections
RewireEntry(input, newPaths, entry) ==
    LET source_plug == GetChildWalk(newPaths, <<>>, entry.src)
        withIn == IF source_plug # NoInput /\ entry.in # <<>>
                  THEN [input EXCEPT ![source_plug] = entry.in[Len(entry.in)]]
                  ELSE input
    IN  SetInputs(withIn, entry.out, source_plug)

RECURSIVE Rewire(_, _, _)
Rewire(input, newPaths, entries) ==
    IF entries = <<>> THEN input
    ELSE Rewire(RewireEntry(input, newPaths, entries[1]), newPaths, Tail(entries))

\* The second loop of replace_node, over the plugs whose value it kept: a
\* plug the new node lacks is copied to it when its parent is there
\* (copy_plug logs the KeyError otherwise), and a plug it has is set to the
\* old value unless setValue raises, as it does on a plug with an input.
RECURSIVE CopyValues(_, _, _, _)
CopyValues(st, input, serialisable, paths) ==
    IF paths = <<>> THEN st
    ELSE LET path == paths[1]
             kept == serialisable[path] /\ HasValue(path)
             parent == SubSeq(path, 1, Len(path) - 1)
             next ==
                 IF ~kept THEN st
                 ELSE IF path \notin st.paths THEN
                     IF parent = <<>> \/ parent \in st.paths
                     THEN [st EXCEPT !.paths = @ \cup {path}]
                     ELSE st
                 ELSE IF input[NewPlug_(path)] = NoInput
                     THEN [st EXCEPT !.set = @ \cup {path}]
                     ELSE st
         IN  CopyValues(next, input, serialisable, Tail(paths))

\* new_node.scriptNode().removeChild(old_node): the host drops the
\* connections between the plugs of the node and the plugs outside it
RemoveOld(input) ==
    [x \in DOMAIN input |->
        IF (x.node = "old") # (input[x].node = "old") THEN NoInput ELSE input[x]]

\* whether plug x feeds plug y through at most n connections
RECURSIVE Feeds(_, _, _, _)
Feeds(input, x, y, n) ==
    IF n = 0 \/ y = NoInput THEN FALSE
    ELSE input[y] = x \/ Feeds(input, x, input[y], n - 1)

Acyclic(input) ==
    \A x \in AllPlugs : ~Feeds(input, x, x, Cardinality(AllPlugs))

Connections(i, o, a, e1, e2, n) ==
    [x \in AllPlugs |->
        CASE x = OldPlug(<<"in">>) -> i
          [] x = OldPlug(<<"out">>) -> o
          [] x = OldPlug(<<"out", "a">>) -> a
          [] x = E1 -> e1
          [] x = E2 -> e2
          [] x = NewPlug_(<<"in">>) -> n
          [] OTHER -> NoInput]

\* the connections replace_node can find
ReplaceInputs ==
    {f \in {Connections(i, o, a, e1, e2, n) :
                i \in {NoInput, E1, E2, OldPlug(<<"out">>)},
                o \in {NoInput, E1},
                a \in {NoInput, E2},
                e1 \in {NoInput, OldPlug(<<"out">>), OldPlug(<<"out", "a">>)},
                e2 \in {NoInput, OldPlug(<<"out">>), OldPlug(<<"in">>), E1},
                n \in {NoInput, E1, OldPlug(<<"out">>)}} :
        Acyclic(f)}

ReplaceInit ==
    /\ HostInit
    /\ bx = [pc |-> "idle"]
    /\ nm = [pc |-> "idle"]
    /\ tr = [pc |-> "idle"]
    /\ \E f \in ReplaceInputs, ser \in [OldPaths -> BOOLEAN], ps \in NewPathSets :
          /\ \A path \in OldPaths \ ps : f[NewPlug_(path)] = NoInput
          /\ rp = [pc |-> "call", input |-> f, input0 |-> f, serialisable |-> ser,
                newPaths |-> ps, newPaths0 |-> ps, valuesSet |-> {},
                connections |-> <<>>,
                oldInScript |-> TRUE, newName |-> <<"N", "1">>]

\* replace_node(old_node, new_node)
replace_node ==
    /\ rp.pc = "call"
    /\ LET connections == get_node_connections(rp.input, rp.serialisable)
           rewired == Rewire(rp.input, rp.newPaths, connections)
           copied == CopyValues([paths |-> rp.newPaths, set |-> {}], rewired,
                                rp.serialisable, get_all_plugs(<<>>))
       IN  rp' = [rp EXCEPT !.pc = "done",
                            !.connections = connections,
                            !.input = RemoveOld(rewired),
                            !.newPaths = copied.paths,
                            !.valuesSet = copied.set,
                            !.oldInScript = FALSE,
                            !.newName = <<"N">>]
    /\ UNCHANGED <<hostVars, nm, tr, bx>>


SpecReplace == ReplaceInit /\ [][replace_node]_vars

----------------------------------------------------------------------------
(* traverse_scene(scene_plug, root)                                         *)
(*                                                                          *)
(* A scene is the set of its locations, each the sequence of names from the *)
(* scene's root; a path is Text, as "/a/b".                                 *)

SceneDepth == 2

SceneNames == <<"a", "b">>

Locations == UNION {[1..d -> Range(SceneNames)] : d \in 0..SceneDepth}

Scenes ==
    {sc \in SUBSET Locations :
        /\ <<>> \in sc
        /\ \A l \in sc : Len(l) > 0 => SubSeq(l, 1, Len(l) - 1) \in sc}

\* the names in a path: what stands between its slashes
RECURSIVE PathNames(_, _, _)
PathNames(path, i, name) ==
    IF i > Len(path) THEN (IF name = <<>> THEN <<>> ELSE <<name>>)
    ELSE IF path[i] = "/"
         THEN (IF name = <<>> THEN <<>> ELSE <<name>>) \o PathNames(path, i + 1, <<>>)
         ELSE PathNames(path, i + 1, Append(name, path[i]))

\* the location a path names, names being single characters here
LocationOf(path) ==
    LET names == PathNames(path, 1, <<>>)
    IN  [i \in 1..Len(names) |-> names[i][1]]

\* scene_plug.childNames(path), in the order of the scene
childNames(scene, path) ==
    LET at == LocationOf(path)
        Here(n) == Append(at, n) \in scene
    IN  SelectSeq(SceneNames, Here)

\* str.rstrip('/')
RECURSIVE rstrip(_)
rstrip(s) ==
    IF s # <<>> /\ s[Len(s)] = "/" THEN rstrip(SubSeq(s, 1, Len(s) - 1)) ELSE s

ChildPaths(path, names) ==
    [i \in 1..Len(names) |-> rstrip(path) \o <<"/", names[i]>>]

TraverseInit ==
    /\ HostInit
    /\ bx = [pc |-> "idle"]
    /\ nm = [pc |-> "idle"]
    /\ rp = [pc |-> "idle"]
    /\ \E sc \in Scenes, root \in {<<"/">>, <<"/", "a">>, <<"/", "a", "/">>} :
          /\ LocationOf(root) \in sc
          /\ tr = [pc |-> "run", scene |-> sc, root |-> root,
                   queue |-> <<root>>, yielded |-> <<>>]

TraverseRound_Stack ==
    /\ tr.pc = "run"
    /\ tr.queue # <<>>
    /\ LET path == Head(tr.queue)
       IN  tr' = [tr EXCEPT
                    !.yielded = Append(@, path),
                    !.queue = ChildPaths(path, childNames(tr.scene, path))
                              \o Tail(@)]
    /\ UNCHANGED <<hostVars, nm, rp, bx>>

\* one round of the while loop: the head of the queue is yielded and its
\* children are put at the end of the queue
TraverseRound ==
    /\ tr.pc = "run"
    /\ tr.queue # <<>>
    /\ LET path == Head(tr.queue)
       IN  tr' = [tr EXCEPT
                    !.yielded = Append(@, path),
                    !.queue = Tail(@)
                              \o ChildPaths(path, childNames(tr.scene, path))]
    /\ UNCHANGED <<hostVars, nm, rp, bx>>

\* the queue is empty: the generator ends
TraverseEnd ==
    /\ tr.pc = "run"
    /\ tr.queue = <<>>
    /\ tr' = [tr EXCEPT !.pc = "done"]
    /\ UNCHANGED <<hostVars, nm, rp, bx>>

NextTraverse == TraverseRound \/ TraverseEnd

\* the generator is run to its end
SpecTraverse ==
    TraverseInit /\ [][NextTraverse]_vars /\ WF_vars(NextTraverse)

----------------------------------------------------------------------------
(* make_scene_load_box(scene_root, name, scenegraph_template,               *)
(*                     auxiliary_scengraph_transforms)                      *)
(*                                                                          *)
(* A box is [name, children, edges]: children[i] is a child of the box, a   *)
(* node or a plug, as [kind, name, scene] (scene is the value of a Group's  *)
(* "name" plug); an edge [src, dst, plug] says that plug of child dst has   *)
(* its input from child src.  Metadata is left out.                         *)

MaxAux == 2

\* str.split(sep), from s[i] on, part being the text since the last sep
RECURSIVE split(_, _, _, _)
split(s, sep, i, part) ==
    IF i > Len(s) THEN <<part>>
    ELSE IF s[i] = sep THEN <<part>> \o split(s, sep, i + 1, <<>>)
    ELSE split(s, sep, i + 1, Append(part, s[i]))

\* sep.join(parts)
RECURSIVE join(_, _)
join(parts, sep) ==
    IF parts = <<>> THEN <<>>
    ELSE IF Len(parts) = 1 THEN parts[1]
    ELSE parts[1] \o <<sep>> \o join(Tail(parts), sep)

\* s.format(node=name), for the replacement field {node}
RECURSIVE format(_, _)
format(s, name) ==
    IF s = <<>> THEN <<>>
    ELSE IF StartsWith(s, <<"{", "n", "o", "d", "e", "}">>)
         THEN name \o format(SubSeq(s, 7, Len(s)), name)
         ELSE <<s[1]>> \o format(Tail(s), name)

\* parent.addChild(child): the host gives the child a name no sibling has
BoxAddChild(box, kind, name, scene) ==
    [box EXCEPT !.children =
        Append(@, [kind |-> kind,
                   name |-> UniqueName(name, {@[i].name : i \in 1..Len(@)}),
                   scene |-> scene])]

\* plug.setInput(source), plug being the one called name[index] of child dst
setInput(box, src, dst, name, index) ==
    LET plug == [name |-> name, index |-> index]
    IN  [box EXCEPT !.edges =
            {e \in @ : ~(e.dst = dst /\ e.plug = plug)}
            \cup {[src |-> src, dst |-> dst, plug |-> plug]}]

\* make_box(name, inputs): a BoxIn and its promoted plug per input, then the
\* BoxOut and the promoted plug of the output "out"
RECURSIVE BoxIns(_, _)
BoxIns(box, inputs) ==
    IF inputs = <<>> THEN box
    ELSE LET withNode == BoxAddChild(box, "BoxIn", <<"B", "o", "x", "I", "n", "_">> \o inputs[1], <<>>)
             withPlug == BoxAddChild(withNode, "Plug", inputs[1], <<>>)
             n == Len(withPlug.children)
         IN  BoxIns(setInput(withPlug, n, n - 1, "promoted", 0), Tail(inputs))

make_box(name, inputs) ==
    LET ins == BoxIns([name |-> name, children |-> <<>>, edges |-> {}], inputs)
        withNode == BoxAddChild(ins, "BoxOut", <<"B", "o", "x", "O", "u", "t", "_", "o", "u", "t">>, <<>>)
        withPlug == BoxAddChild(withNode, "Plug", <<"o", "u", "t">>, <<>>)
        n == Len(withPlug.children)
    IN  setInput(withPlug, n - 1, n, "promoted", 0)

\* create_sub_groups(parent, sub_groups), from group idx on: the box, and
\* the Group nodes made, in the order of sub_groups
RECURSIVE create_sub_groups(_, _, _, _)
create_sub_groups(box, sub_groups, idx, group_nodes) ==
    IF idx > Len(sub_groups) THEN [box |-> box, group_nodes |-> group_nodes]
    ELSE LET grp == sub_groups[idx]
             joined == join(SubSeq(sub_groups, 1, idx - 1), "/")
             subs == IF joined # <<>> THEN <<"/">> \o joined ELSE joined
             plug_label == <<"E", "n", "a", "b", "l", "e", " ">> \o subs \o <<"/">> \o grp
             plug_name == ReplaceChar(ReplaceChar(plug_label, " ", "_"), "/", "_")
             withPlug == BoxAddChild(box, "Plug", plug_name, <<>>)
             withNode == BoxAddChild(withPlug, "Group", <<"G", "r", "o", "u", "p", "_">> \o grp, grp)
             n == Len(withNode.children)
         IN  create_sub_groups(setInput(withNode, n - 1, n, "enabled", 0),
                               sub_groups, idx + 1, Append(group_nodes, n))

\* the loop over group_nodes[1:]: each group takes the one before it
RECURSIVE ChainGroups(_, _, _)
ChainGroups(box, current_group, group_nodes) ==
    IF group_nodes = <<>> THEN [box |-> box, current_group |-> current_group]
    ELSE ChainGroups(setInput(box, current_group, group_nodes[1], "in", 0),
                     group_nodes[1], Tail(group_nodes))

\* the loop over zip(aux_groups, auxiliary_scengraph_transforms)
RECURSIVE AuxGroups(_, _, _, _, _)
AuxGroups(box, merge_scenes, aux_groups, auxs, idx) ==
    IF aux_groups = <<>> THEN [box |-> box, err |-> "none"]
    ELSE LET Named(i) ==
                 box.children[i].name = <<"B", "o", "x", "I", "n", "_">> \o auxs[1]
             \* box[f"BoxIn_{aux}"]: the child of that name, 0 for none
             box_in == IF \E i \in 1..Len(box.children) : Named(i)
                       THEN CHOOSE i \in 1..Len(box.children) : Named(i)
                       ELSE 0
             fed == setInput(box, box_in, aux_groups[1], "in", 0)
             merged == setInput(fed, aux_groups[1], merge_scenes, "in", idx)
         IN  IF box_in = 0 THEN [box |-> box, err |-> "KeyError"]
             ELSE AuxGroups(merged, merge_scenes, Tail(aux_groups),
                            Tail(auxs), idx + 1)

\* make_scene_load_box(scene_root, name, scenegraph_template,
\* auxiliary_scengraph_transforms), root_children being the names of the
\* children of scene_root: the box it returns, or the exception.  Each \E
\* names the value of one assignment of the function.
make_scene_load_box(root_children, name, scenegraph_template, auxs) ==
    \E made \in {make_box(<<"s", "c", "e", "n", "e", "_", "l", "o", "a", "d", "_", "b", "o", "x">>, auxs)},
       box_name \in {get_next_valid_name(name, root_children)},
       parts \in {split(scenegraph_template, "/", 1, <<>>)} :
    \E withFile \in {BoxAddChild([made EXCEPT !.name = box_name.result],
                                 "Plug", <<"f", "i", "l", "e", "N", "a", "m", "e">>, <<>>)},
       sc_root_name \in {IF "/" \in Range(scenegraph_template)
                         THEN parts[1] ELSE scenegraph_template},
       sub_groups \in {IF "/" \in Range(scenegraph_template)
                       THEN Tail(parts) ELSE <<>>} :
    \E filename_plug \in {Len(withFile.children)},
       subs \in {create_sub_groups(withFile, sub_groups, 1, <<>>)} :
    \E group_nodes \in {[i \in 1..Len(subs.group_nodes) |->
                           subs.group_nodes[Len(subs.group_nodes) + 1 - i]]},
       withReader \in {BoxAddChild(subs.box, "SceneReader", <<"R", "e", "a", "d">>, <<>>)} :
    \E scene_reader \in {Len(withReader.children)} :
    \E read \in {setInput(withReader, filename_plug, scene_reader,
                          "fileName", 0)} :
    \E chain \in {IF Len(group_nodes) > 0
                  THEN ChainGroups(
                           setInput(read, scene_reader, group_nodes[1], "in", 0),
                           group_nodes[1], Tail(group_nodes))
                  ELSE [box |-> read, current_group |-> scene_reader]} :
    \E withMerge \in {BoxAddChild(chain.box, "MergeScenes", <<"M", "e", "r", "g", "e", "S", "c", "e", "n", "e", "s">>, <<>>)},
       main_group_name \in {format(sc_root_name, box_name.result)} :
    \E merge_scenes \in {Len(withMerge.children)} :
    \E withMain \in {BoxAddChild(
                        setInput(withMerge, chain.current_group, merge_scenes,
                                 "in", 0),
                        "Group", main_group_name, main_group_name)} :
    \E main_group \in {Len(withMain.children)} :
    \E grouped \in {setInput(withMain, merge_scenes, main_group, "in", 0)} :
    \E box_outs \in {{i \in 1..Len(grouped.children) :
                         grouped.children[i].kind = "BoxOut"}} :
    \E out \in {IF box_outs # {}
                THEN setInput(grouped, main_group,
                              CHOOSE i \in box_outs : \A j \in box_outs : i <= j,
                              "in", 0)
                ELSE grouped} :
    \E aux \in {create_sub_groups(out, auxs, 1, <<>>)} :
    \E r \in {IF box_name.err # "none"
              THEN [box |-> made, err |-> box_name.err]
              ELSE AuxGroups(aux.box, merge_scenes, aux.group_nodes, auxs, 1)} :
        bx' = [bx EXCEPT !.pc = "done", !.box = r.box, !.err = r.err]

BoxInit ==
    /\ HostInit
    /\ nm = [pc |-> "idle"]
    /\ rp = [pc |-> "idle"]
    /\ tr = [pc |-> "idle"]
    /\ \E name \in {<<"A">>, <<"A", "#">>},
          root_children \in {{}, {<<"A", "1">>}},
          template \in {<<"{", "n", "o", "d", "e", "}">>, <<"{", "n", "o", "d", "e", "}">> \o <<"/", "g">>,
                        <<"R", "/", "g", "/", "m">>, <<"R", "/", "g", "/", "g">>},
          auxs \in UNION {[1..n -> {<<"g">>, <<"m">>}] : n \in 0..MaxAux} :
          bx = [pc |-> "call", name |-> name, root_children |-> root_children,
                template |-> template, auxs |-> auxs,
                box |-> [name |-> <<>>, children |-> <<>>, edges |-> {}],
                err |-> "none"]

BoxCall ==
    /\ bx.pc = "call"
    /\ make_scene_load_box(bx.root_children, bx.name, bx.template, bx.auxs)
    /\ UNCHANGED <<hostVars, nm, rp, tr>>

SpecBox == BoxInit /\ [][BoxCall]_vars

----------------------------------------------------------------------------
(* Claims about the containers and the loader, checked under Spec *)

Yielded(cs) == {cs[k]._node : k \in 1..Len(cs)}

IsContainerId(value) ==
    value = PyS(AYON_CONTAINER_ID) \/ value = PyS(AVALON_CONTAINER_ID)

\* what C1 asks of a node for it to be yielded
Recognised(n) ==
    /\ nodes[n].inScript
    /\ nodes[n].hasUser
    /\ \A key \in Range(required) : key \in DOMAIN nodes[n].user
    /\ IsContainerId(getValue(nodes[n].user["id"]))

\* C1: get_containers yields a container for a node if and only if the node
\* is a direct child of the root script, has a user plug holding all six
\* required keys, and its user id is AYON_CONTAINER_ID or
\* AVALON_CONTAINER_ID; a yielded container holds the values of exactly
\* those six keys, plus objectName (the node's name) and _node (the node).
C1_ContainersExactlyTheTagged ==
    LET cs == get_containers
    IN  /\ \A n \in 1..Len(nodes) : (n \in Yielded(cs)) <=> Recognised(n)
        /\ \A k, l \in 1..Len(cs) : cs[k]._node = cs[l]._node => k = l
        /\ \A k \in 1..Len(cs) :
              LET n == cs[k]._node
              IN  /\ DOMAIN cs[k] = Range(required) \cup {"objectName", "_node"}
                  /\ \A key \in Range(required) :
                        cs[k][key] = getValue(nodes[n].user[key])
                  /\ cs[k].objectName = nodes[n].name

\* a node tagged with AVALON_CONTAINER_ID is yielded while a child of the
\* script that carries all six keys with another id is not
C1_Witness ==
    /\ \E k \in 1..Len(get_containers) :
          get_containers[k].id = PyS(AVALON_CONTAINER_ID)
    /\ \E n \in ScriptChildren :
          /\ \A key \in Range(required) : key \in DOMAIN nodes[n].user
          /\ n \notin Yielded(get_containers)

\* C2: after imprint_container(node, name, namespace, context, loader) on a
\* direct child of the root script has returned, get_containers yields the
\* node with id = AYON_CONTAINER_ID, name = str(name), namespace =
\* str(namespace), loader = str(loader) and representation =
\* str(context["representation"]["id"]), whatever user plugs it had before.
C2_ImprintedIsContainer ==
    [][(lastOp'.op \in {"imprint_container", "load"} /\ raised' = "none") =>
        \E k \in 1..Len(get_containers') :
            LET c == get_containers'[k]
            IN  /\ c._node = lastOp'.node
                /\ c.id = PyS(AYON_CONTAINER_ID)
                /\ c.name = PyS(lastOp'.name)
                /\ c.namespace = PyS(PyStr(lastOp'.namespace))
                /\ c.loader = PyS(LOADER_NAME)
                /\ c.representation =
                       PyS(PyStr(lastOp'.context.representation.id))]_vars

\* imprint_container has returned on a node some of whose plugs it had to
\* replace
C2_Witness ==
    /\ lastOp.op = "imprint_container"
    /\ raised = "none"
    /\ lastOp.warnings > 0
    /\ lastOp.namespace = PyNone
    /\ lastOp.node \in Yielded(get_containers)

\* the path with every backslash replaced by "/"
Slashed(path, result) ==
    /\ Len(result) = Len(path)
    /\ \A i \in 1..Len(path) :
          result[i] = IF path[i] = "\\" THEN "/" ELSE path[i]

\* C9: on a container that load produced, update(container, representation)
\* sets the node's fileName to the representation's path with every
\* backslash replaced by "/" and its user representation to the string of
\* the representation's id, and changes nothing else, so that the node is
\* still yielded; switch does the same as update.
C9_UpdateAndSwitch ==
    [][(/\ lastOp'.op \in {"update", "switch"}
        /\ nodes[lastOp'.node].kind = "SceneReader") =>
        LET n == lastOp'.node
            r == lastOp'.representation
        IN  /\ raised' = "none"
            /\ Slashed(r.path, nodes'[n].fileName)
            /\ nodes'[n].user["representation"] = [t |-> "str", v |-> PyStr(r._id)]
            /\ DOMAIN nodes'[n].user = DOMAIN nodes[n].user
            /\ \A key \in DOMAIN nodes[n].user \ {"representation"} :
                  nodes'[n].user[key] = nodes[n].user[key]
            /\ nodes' = [nodes EXCEPT ![n].fileName = nodes'[n].fileName,
                                      ![n].user = nodes'[n].user]
            /\ n \in Yielded(get_containers')
            /\ UNCHANGED <<scriptUser, scriptFileName, loads, variables,
                           childAddedConns, lastCtx>>]_vars

\* switch has acted on a loaded container: the path had backslashes
C9_Witness ==
    /\ lastOp.op = "switch"
    /\ nodes[lastOp.node].kind = "SceneReader"
    /\ "\\" \in Range(lastOp.representation.path)
    /\ nodes[lastOp.node].user["representation"].v = <<"1", "2">>

\* C10: after remove(container) the node is no child of the script and no
\* later get_containers yields it, and the other containers are enumerated
\* as before.
C10_RemovedStaysAway ==
    [][/\ (lastOp'.op = "remove" /\ lastOp'.node \in Yielded(get_containers)) =>
            /\ ~nodes'[lastOp'.node].inScript
            /\ lastOp'.node \notin Yielded(get_containers')
            /\ \A k \in 1..Len(get_containers) :
                  get_containers[k]._node # lastOp'.node =>
                      \E l \in 1..Len(get_containers') :
                          get_containers'[l] = get_containers[k]
       /\ \A n \in 1..Len(nodes) :
            ~nodes[n].inScript => n \notin Yielded(get_containers')]_vars

\* a container was removed while another one is still enumerated
C10_Witness ==
    /\ lastOp.op = "remove"
    /\ ~nodes[lastOp.node].inScript
    /\ Len(get_containers) >= 1

----------------------------------------------------------------------------
(* Claims about the workfile, checked under SpecWorkfile *)

\* C3: get_context_data returns the data of the most recent
\* update_context_data on the script, and an empty dict when there was none.
C3_ContextRoundTrip ==
    /\ get_context_data = lastCtx.data
    /\ ~lastCtx.called => get_context_data = PyDict(<<>>)
    /\ (lastOp.op = "update_context_data") =>
           get_context_data = PyDict(lastOp.data)

\* update_context_data has overridden a plug that existed, with a dict of a
\* nested dict and a bool
C3_Witness ==
    /\ lastOp.op = "update_context_data"
    /\ lastOp.existed
    /\ Len(lastOp.data) = 2
    /\ get_context_data.v[1][2].t = "dict"

\* C4: open_workfile on a path that does not exist raises RuntimeError and
\* changes nothing: not the script's fileName, nor its content (no load),
\* nor what _on_scene_new writes and connects.
C4_MissingFileChangesNothing ==
    [][(lastOp'.op = "open_workfile" /\ ~exists(lastOp'.filepath)) =>
        /\ raised' = "RuntimeError"
        /\ UNCHANGED <<nodes, scriptUser, scriptFileName, loads, variables,
                       childAddedConns, lastCtx>>]_vars

\* a missing file was asked for after a workfile had been opened
C4_Witness ==
    /\ lastOp.op = "open_workfile"
    /\ lastOp.filepath = FILE_MISSING
    /\ raised = "RuntimeError"
    /\ scriptFileName = FILE_A
    /\ childAddedConns > 0

----------------------------------------------------------------------------
(* Claims about imprint, checked under SpecImprint *)

\* what imprint stores for a value: the JSON text with its prefix for a
\* dict, "<None>" for None, the value itself otherwise
StoredForm(value) ==
    CASE value.t = "dict" -> PyS(<<"J", "S", "O", "N", ":", ":", ":">>
                                 \o JsonDumps(value))
      [] value.t = "none" -> PyS(<<"<", "N", "o", "n", "e", ">">>)
      [] OTHER -> value

\* C5: when imprint returns normally, every key of data is in node["user"]
\* and holds the value given for it.
C5_EveryKeyHoldsItsValue ==
    (lastOp.op = "imprint" /\ raised = "none") =>
        \A i \in 1..Len(lastOp.data) :
            LET key == lastOp.data[i][1]
                value == lastOp.data[i][2]
                user == nodes[lastOp.node].user
            IN  /\ key \in DOMAIN user
                /\ PyEq(getValue(user[key]), StoredForm(value))

----------------------------------------------------------------------------
(* Claims about get_next_valid_name, checked under SpecName *)

\* the numbers of the children named head, digits, tail
NumbersOf(head, tail, children) ==
    {ParseInt(SubSeq(c, Len(head) + 1, Len(c) - Len(tail))) :
        c \in {x \in children :
                  /\ Len(x) > Len(head) + Len(tail)
                  /\ StartsWith(x, head)
                  /\ SubSeq(x, Len(x) - Len(tail) + 1, Len(x)) = tail
                  /\ \A i \in (Len(head) + 1)..(Len(x) - Len(tail)) :
                        IsDigit(x[i])}}

\* C6: for a template with one block of '#', get_next_valid_name returns a
\* name that no child of script_node has, and whose number is one more than
\* the highest number among the children that match the template.
C6_NextHighestUniqueName ==
    (nm.pc = "done" /\ "#" \in Range(nm.template)) =>
        LET res == TemplateSearch(nm.template)
            numbers == NumbersOf(res.head, res.tail, nm.children)
            top == CHOOSE m \in numbers : \A o \in numbers : o <= m
        IN  /\ nm.err = "none"
            /\ nm.result \notin nm.children
            /\ numbers # {} =>
                   nm.result = res.head
                               \o zfill(Digits(top + 1), Len(res.padding))
                               \o res.tail

----------------------------------------------------------------------------
(* Claims about replace_node, checked under SpecReplace *)

Preserved ==
    \A path \in OldPaths :
        (rp.serialisable[path] /\ path \in rp.newPaths0) =>
            \A e \in AllPlugs :
                e.node # "old" =>
                    /\ rp.input0[OldPlug(path)] = e =>
                           rp.input[NewPlug_(path)] = e
                    /\ rp.input0[e] = OldPlug(path) =>
                           rp.input[e] = NewPlug_(path)

\* C7 as stated: replace_node keeps the connections: for every Serialisable
\* plug p of old_node whose path new_node has a plug q at, every plug outside
\* old_node that was the input of p is the input of q afterwards, and every
\* plug outside old_node that took its input from p takes it from q
\* afterwards.
C7_ConnectionsPreserved == rp.pc = "done" => Preserved

\* C7: the same, when no plug of new_node takes its input from a plug of
\* old_node at the call.
C7_ConnectionsPreservedOffOldNode ==
    (/\ rp.pc = "done"
     /\ \A x \in AllPlugs : x.node = "new" => rp.input0[x].node # "old") =>
        Preserved

\* a nested plug with an input from outside and an output to the outside
\* was rewired, on a new node that had an input of its own
C7_Witness ==
    /\ rp.pc = "done"
    /\ rp.serialisable[<<"out", "a">>]
    /\ <<"out", "a">> \in rp.newPaths0
    /\ rp.input0[OldPlug(<<"out", "a">>)] = E2
    /\ rp.input0[E1] = OldPlug(<<"out", "a">>)
    /\ rp.input[E1] = NewPlug_(<<"out", "a">>)
    /\ rp.input0[NewPlug_(<<"in">>)] = E1

----------------------------------------------------------------------------
(* Claims about traverse_scene, checked under SpecTraverse *)

IsPrefix(a, b) == Len(a) <= Len(b) /\ SubSeq(b, 1, Len(a)) = a

BreadthFirst ==
    LET y == tr.yielded
        below == {l \in tr.scene : IsPrefix(LocationOf(tr.root), l)}
    IN  /\ Len(y) >= 1
        /\ y[1] = tr.root
        /\ {LocationOf(y[i]) : i \in 1..Len(y)} = below
        /\ \A i, j \in 1..Len(y) : LocationOf(y[i]) = LocationOf(y[j]) => i = j
        /\ \A i, j \in 1..Len(y) :
              i < j => Len(LocationOf(y[i])) <= Len(LocationOf(y[j]))

\* C8: on any finite scene traverse_scene ends, having yielded the root
\* first, every location below the root exactly once, and no location before
\* one of lesser depth.
C8_TraversalBreadthFirst == <>(tr.pc = "done" /\ BreadthFirst)

\* the traversal of a scene of two levels from a root written with a
\* trailing slash has ended
C8_Witness ==
    /\ tr.pc = "done"
    /\ tr.root = <<"/", "a", "/">>
    /\ Len(tr.yielded) = 3
    /\ tr.scene = {<<>>, <<"a">>, <<"b">>, <<"a", "a">>, <<"a", "b">>, <<"b", "a">>}

----------------------------------------------------------------------------
(* Claims about the signals and the variables of a new scene, checked      *)
(* under SpecWorkfile                                                       *)

RenderLayerChildren ==
    {i \in ScriptChildren : nodes[i].kind = "RenderLayerNode"}

\* C11: once _on_scene_new has run, connect_signals has been called on every
\* RenderLayerNode that is a child of the script, whether it was there when
\* _on_scene_new ran or was added later, and it is never called on a node of
\* another kind.
C11_RenderLayersConnected ==
    /\ childAddedConns >= 1 =>
          \A i \in RenderLayerChildren : nodes[i].connects >= 1
    /\ \A i \in 1..Len(nodes) :
          nodes[i].kind # "RenderLayerNode" => nodes[i].connects = 0

\* a RenderLayerNode added after _on_scene_new next to an older node of
\* another kind
C11_Witness ==
    /\ childAddedConns >= 1
    /\ lastOp.op = "create"
    /\ lastOp.node \in RenderLayerChildren
    /\ nodes[lastOp.node].connects >= 1
    /\ \E i \in ScriptChildren : nodes[i].kind = "SceneWriter"

\* C16: a connect_signals that raises is logged and nothing propagates: no
\* _on_scene_new ends with an exception, every RenderLayerNode child has had
\* its connect_signals called, every failure is in the log,
\* check_boxnode_versions has run once per _on_scene_new, and a node whose
\* connection failed when it was added is a child of the script.
C16_ConnectFailureIsLogged ==
    /\ raised # "Exception"
    /\ variables.boxnodeChecks = childAddedConns
    /\ childAddedConns >= 1 =>
          \A i \in RenderLayerChildren : nodes[i].connects >= 1
    /\ \A i \in 1..Len(nodes) :
          nodes[i].logged = (IF nodes[i].fails THEN nodes[i].connects ELSE 0)
    /\ lastOp.op = "create" => nodes[lastOp.node].inScript

\* _on_scene_new has run over a failing RenderLayerNode followed by another
\* RenderLayerNode
C16_Witness ==
    /\ lastOp.op = "script_added"
    /\ \E i, j \in RenderLayerChildren :
          /\ i < j
          /\ nodes[i].fails /\ nodes[i].logged >= 1
          /\ ~nodes[j].fails /\ nodes[j].connects >= 1
    /\ variables.boxnodeChecks >= 1

\* C17: connect_render_layer_signals is connected to the script's
\* childAddedSignal at most once, so the connect_signals of a RenderLayerNode
\* that has just been added has been called exactly once.
C17_ConnectedAtMostOnce ==
    /\ childAddedConns <= 1
    /\ (/\ lastOp.op = "create"
        /\ childAddedConns >= 1
        /\ nodes[lastOp.node].kind = "RenderLayerNode")
       => nodes[lastOp.node].connects = 1

\* C18: every _on_scene_new leaves exactly one variable named render:shot,
\* and one that was there before the call (in the script, or in the file that
\* open_workfile loaded) keeps its value.
C18_RenderShotOnce ==
    [][LET before == IF lastOp'.op = "open_workfile"
                     THEN DiskFiles[lastOp'.filepath].renderShot
                     ELSE variables.renderShot
       IN  (\/ lastOp'.op = "script_added"
            \/ lastOp'.op = "open_workfile" /\ exists(lastOp'.filepath))
           => /\ Len(variables'.renderShot) = 1
              /\ before # <<>> => variables'.renderShot = before]_vars

\* _on_scene_new has run a second time on a script whose render:shot has a
\* value
C18_Witness ==
    /\ lastOp.op = "script_added"
    /\ childAddedConns >= 2
    /\ variables.renderShot = <<RENDER_SHOT>>

----------------------------------------------------------------------------
(* More claims about get_next_valid_name, checked under SpecName *)

\* C12: when no child of script_node matches the pattern made from the
\* template, the result is the head, the number 1 padded with zeros to the
\* length of the block of '#', and the tail; a template without '#' is
\* returned as it is, whatever the children.
C12_FirstNumberIsOne ==
    nm.pc = "done" =>
        LET res == TemplateSearch(nm.template)
        IN  IF "#" \in Range(nm.template)
            THEN (\A c \in nm.children : ~NameMatches(res.head, res.tail, c))
                 => /\ nm.err = "none"
                    /\ nm.result =
                         res.head
                         \o [i \in 1..(Len(res.padding) - 1) |-> "0"]
                         \o <<"1">> \o res.tail
            ELSE nm.err = "none" /\ nm.result = nm.template

\* 'n##' among children that do not match it gives 'n01'
C12_Witness ==
    /\ nm.pc = "done"
    /\ nm.template = <<"n", "#", "#">>
    /\ nm.children = {<<"m", "0", "1">>}
    /\ nm.result = <<"n", "0", "1">>

----------------------------------------------------------------------------
(* Claims about get_node_connections, checked under SpecReplace on the     *)
(* dict that replace_node gets for old_node                                 *)

OutsideOld(x) == x # NoInput /\ x.node # "old"

OutputsOutside(path) ==
    {x \in AllPlugs : OutsideOld(x) /\ rp.input0[x] = OldPlug(path)}

\* C13: get_node_connections(node) has one entry, keyed by the relative path,
\* for exactly the Serialisable plugs of node that have a connection to a
\* plug outside node; 'in' holds the input of the plug only when it lies
\* outside node, 'out' holds exactly the outputs that lie outside node.
C13_ConnectionsToOutside ==
    rp.pc = "done" =>
        LET entries == rp.connections
        IN  /\ {entries[k].src : k \in 1..Len(entries)} =
                  {path \in OldPaths :
                      /\ rp.serialisable[path]
                      /\ \/ OutsideOld(rp.input0[OldPlug(path)])
                         \/ OutputsOutside(path) # {}}
            /\ \A k, l \in 1..Len(entries) :
                  entries[k].src = entries[l].src => k = l
            /\ \A k \in 1..Len(entries) :
                  LET e == entries[k]
                      the_input == rp.input0[OldPlug(e.src)]
                  IN  /\ e.in = IF OutsideOld(the_input)
                                 THEN <<the_input>> ELSE <<>>
                      /\ Range(e.out) = OutputsOutside(e.src)
                      /\ Len(e.out) = Cardinality(OutputsOutside(e.src))

\* a plug whose only connection is to a plug of the same node has no entry,
\* and the plug it is connected to has one for its output to the outside
C13_Witness ==
    /\ rp.pc = "done"
    /\ \A path \in OldPaths : rp.serialisable[path]
    /\ rp.input0[OldPlug(<<"in">>)] = OldPlug(<<"out">>)
    /\ rp.input0[E1] = OldPlug(<<"out">>)
    /\ \E k \in 1..Len(rp.connections) :
          rp.connections[k] = [src |-> <<"out">>, in |-> <<>>, out |-> <<E1>>]
    /\ \A k \in 1..Len(rp.connections) : rp.connections[k].src # <<"in">>

----------------------------------------------------------------------------
(* Claims about make_scene_load_box, checked under SpecBox *)

\* the k-th child of the box that is of a kind
NthOfKind(kind, k) ==
    CHOOSE i \in 1..Len(bx.box.children) :
        /\ bx.box.children[i].kind = kind
        /\ Cardinality({j \in 1..i : bx.box.children[j].kind = kind}) = k

\* input index of child dst is fed by child src
BoxFeeds(src, dst, index) ==
    [src |-> src, dst |-> dst, plug |-> [name |-> "in", index |-> index]]
        \in bx.box.edges

\* C14: for a template 'r/g1/.../gn' the reader feeds group gn, each group gi
\* feeds g(i-1), g1 feeds input 0 of the merge, the merge feeds the main
\* group, named r with {node} expanded to the name of the box, and the main
\* group feeds the output of the box; the i-th auxiliary transform is a group
\* fed by its own input of the box and feeding input i of the merge.
C14_SceneLoadBoxWiring ==
    (bx.pc = "done" /\ bx.err = "none") =>
        LET parts == split(bx.template, "/", 1, <<>>)
            n == Len(parts) - 1
            m == Len(bx.auxs)
            reader == NthOfKind("SceneReader", 1)
            merge == NthOfKind("MergeScenes", 1)
            g(i) == NthOfKind("Group", i)
            main == g(n + 1)
            aux(i) == g(n + 1 + i)
            Kind(k) == {i \in 1..Len(bx.box.children) :
                           bx.box.children[i].kind = k}
        IN  /\ Cardinality(Kind("Group")) = n + 1 + m
            /\ Cardinality(Kind("BoxIn")) = m
            /\ \A i \in 1..n : bx.box.children[g(i)].scene = parts[i + 1]
            /\ BoxFeeds(reader, IF n > 0 THEN g(n) ELSE merge, 0)
            /\ \A i \in 2..n : BoxFeeds(g(i), g(i - 1), 0)
            /\ n > 0 => BoxFeeds(g(1), merge, 0)
            /\ BoxFeeds(merge, main, 0)
            /\ bx.box.children[main].scene = format(parts[1], bx.box.name)
            /\ BoxFeeds(main, NthOfKind("BoxOut", 1), 0)
            /\ \A i \in 1..m :
                  /\ bx.box.children[aux(i)].scene = bx.auxs[i]
                  /\ BoxFeeds(NthOfKind("BoxIn", i), aux(i), 0)
                  /\ BoxFeeds(aux(i), merge, i)

----------------------------------------------------------------------------
(* More claims about imprint, checked under SpecImprint *)

\* the kind of plug a value is to be stored in
KindFor(value) ==
    CASE value.t \in {"dict", "none", "str"} -> "str"
      [] value.t \in {"bool", "float", "int"} -> value.t
      [] OTHER -> "unsupported"

\* C15: imprint stores each value in a plug of the matching kind: a dict as
\* the string 'JSON:::' and its JSON text, None as the string '<None>', a str
\* in a string plug, a bool in a bool plug, a float in a float plug, an int in
\* an int plug; a value of another type makes imprint raise TypeError.
C15_StoredInMatchingKind ==
    lastOp.op = "imprint" =>
        LET user == nodes[lastOp.node].user
            pairs == {lastOp.data[i] : i \in 1..Len(lastOp.data)}
        IN  /\ raised = "none" =>
                  \A pair \in pairs :
                      /\ pair[1] \in DOMAIN user
                      /\ user[pair[1]].t = KindFor(pair[2])
                      /\ pair[2].t \in {"dict", "none"} =>
                             getValue(user[pair[1]]) = StoredForm(pair[2])
            /\ (\E pair \in pairs : KindFor(pair[2]) = "unsupported")
                   => raised = "TypeError"

====
